---- MODULE Spec2Model ----
(***************************************************************************)
(* Model of the database start-up sequence of the To-Do application        *)
(* (src-tauri/src/db.rs): init_db = run_migrations ; seed_initial_data.    *)
(*                                                                         *)
(* The database file is the durable state: the live schema (tables and,    *)
(* per table, columns), the rows of the migrations ledger, the number of   *)
(* task rows and the rows of user_progress.  One start-up walks through    *)
(* the steps of run_migrations in program order; a start-up that ended     *)
(* (Ready or Failed) may be followed by another start-up on the same file. *)
(***************************************************************************)
EXTENDS Integers, Sequences, FiniteSets, TLC

(***************************************************************************)
(* Bounds of the model.                                                    *)
(***************************************************************************)
\* number of start-up sequences run on one database file
MaxRuns == 2
\* the seeder inserts the rows of mock_tasks
SeedRows == 5

(***************************************************************************)
(* Names of migration units.  Three names are special-cased by             *)
(* run_migrations; the two others stand for units run "as-is".             *)
(***************************************************************************)
M0001 == "0001_init.sql"
M0002 == "0002_broken.sql"
M0004 == "0004_add_recurrence.sql"
M0006 == "0006_add_notification_preferences.sql"
M0008 == "0008_add_attachment_size.sql"

\* migration_files.sort(): ascending lexical order of the file names
NameOrder == <<M0001, M0002, M0004, M0006, M0008>>

Units == {NameOrder[i] : i \in 1..Len(NameOrder)}

\* read_dir + filter *.sql + sort: the names of a directory, ascending
SortedFiles(S) == SelectSeq(NameOrder, LAMBDA n : n \in S)

Range(s) == {s[i] : i \in 1..Len(s)}

(***************************************************************************)
(* Column lists of the tables the code creates.                            *)
(***************************************************************************)
MigrationsCols == {"id", "name", "applied_at"}

ProjectsCols == {"id", "name", "color", "created_at", "updated_at"}

TasksBaseCols ==
    {"id", "title", "description", "due_at", "created_at", "updated_at",
     "priority", "completed_at", "project_id", "order_index", "metadata"}

RecurrenceCols == {"recurrence_type", "recurrence_interval", "recurrence_parent_id"}

NotificationCols == {"reminder_minutes_before", "notification_repeat"}

TasksFullCols == TasksBaseCols \cup RecurrenceCols \cup NotificationCols

SettingsCols == {"key", "value"}

SubtasksCols == {"id", "task_id", "title", "completed"}

AttachmentsBaseCols == {"id", "task_id", "filename", "path", "mime", "created_at"}

AttachmentsCols == AttachmentsBaseCols \cup {"size"}

TemplatesCols ==
    {"id", "name", "title", "description", "priority", "project_id",
     "created_at", "updated_at"}

UserProgressCols ==
    {"id", "total_xp", "current_level", "current_streak", "longest_streak",
     "last_completion_date", "created_at", "updated_at"}

BadgesCols == {"id", "user_id", "badge_type", "earned_at", "metadata"}

XpHistoryCols == {"id", "user_id", "xp_amount", "source", "task_id", "created_at"}

NotificationScheduleCols == {"id", "task_id", "scheduled_at", "snooze_until", "created_at"}

(***************************************************************************)
(* The live schema is a function from the existing tables to their         *)
(* columns.  The operators below are the SQL statements the code issues;   *)
(* each yields a result [ok, s, err]: the schema after the statement and,  *)
(* on failure, SQLite's error.                                             *)
(***************************************************************************)
EmptySchema == [t \in {} |-> {}]

HasTable(s, t) == t \in DOMAIN s

\* SELECT name FROM pragma_table_info(t): no rows for a table that is absent
TableInfo(s, t) == IF t \in DOMAIN s THEN s[t] ELSE {}

Ok(s) == [ok |-> TRUE, s |-> s, err |-> "none"]

Err(s, e) == [ok |-> FALSE, s |-> s, err |-> e]

PutTable(s, t, cols) == [x \in (DOMAIN s) \cup {t} |-> IF x = t THEN cols ELSE s[x]]

\* CREATE TABLE t (...)
CreateTable(s, t, cols) ==
    IF t \in DOMAIN s THEN Err(s, "table already exists") ELSE Ok(PutTable(s, t, cols))

\* CREATE TABLE IF NOT EXISTS t (...)
CreateTableIfNotExists(s, t, cols) ==
    IF t \in DOMAIN s THEN Ok(s) ELSE Ok(PutTable(s, t, cols))

\* ALTER TABLE t ADD COLUMN c
AlterAddColumn(s, t, c) ==
    IF t \notin DOMAIN s THEN Err(s, "no such table")
    ELSE IF c \in s[t] THEN Err(s, "duplicate column name")
    ELSE Ok([s EXCEPT ![t] = @ \cup {c}])


(***************************************************************************)
(* Bodies of the units run "as-is" (tx.execute_batch(&sql)): a batch is a  *)
(* sequence of statements, run in order up to the first one that fails.    *)
(* 0001_init.sql creates projects(id, name); 0002_broken.sql creates a     *)
(* table and then alters a table that does not exist, so it always fails   *)
(* after its first statement has taken effect inside the transaction.      *)
(***************************************************************************)
Body(name) ==
    IF name = M0001
    THEN << [op |-> "create", t |-> "projects", cols |-> {"id", "name"}] >>
    ELSE << [op |-> "create", t |-> "scratch", cols |-> {"id"}],
            [op |-> "add", t |-> "no_such_table", cols |-> {"x"}] >>

ExecStatement(s, st) ==
    IF st.op = "create"
    THEN CreateTable(s, st.t, st.cols)
    ELSE AlterAddColumn(s, st.t, CHOOSE c \in st.cols : TRUE)

RECURSIVE ExecBatchFrom(_, _, _)
ExecBatchFrom(r, batch, i) ==
    IF i > Len(batch) \/ ~r.ok THEN r
    ELSE ExecBatchFrom(ExecStatement(r.s, batch[i]), batch, i + 1)

\* tx.execute_batch(&sql)
ExecBatch(s, batch) == ExecBatchFrom(Ok(s), batch, 1)

(***************************************************************************)
(* The column-guarded units of run_migrations.                             *)
(***************************************************************************)
\* variant: the ALTER is issued without looking at the columns read
AddIfMissing_Unguarded(r, columns, t, c) ==
    IF ~r.ok THEN r ELSE AlterAddColumn(r.s, t, c)

\* if !columns.contains(c) { tx.execute("ALTER TABLE t ADD COLUMN c")?; }
AddIfMissing(r, columns, t, c) ==
    IF ~r.ok THEN r
    ELSE IF c \notin columns THEN AlterAddColumn(r.s, t, c)
    ELSE r

\* migration_file == "0004_add_recurrence.sql"
Unit0004(s) ==
    LET columns == TableInfo(s, "tasks")
        r1 == AddIfMissing(Ok(s), columns, "tasks", "recurrence_type")
        r2 == AddIfMissing(r1, columns, "tasks", "recurrence_interval")
    IN  AddIfMissing(r2, columns, "tasks", "recurrence_parent_id")

\* migration_file == "0008_add_attachment_size.sql"
Unit0008(s) ==
    LET columns == TableInfo(s, "attachments")
    IN  AddIfMissing(Ok(s), columns, "attachments", "size")

\* migration_file == "0006_add_notification_preferences.sql"
Unit0006(s) ==
    LET columns == TableInfo(s, "tasks")
        r1 == AddIfMissing(Ok(s), columns, "tasks", "reminder_minutes_before")
        r2 == AddIfMissing(r1, columns, "tasks", "notification_repeat")
    IN  IF r2.ok
        THEN CreateTableIfNotExists(r2.s, "notification_schedule", NotificationScheduleCols)
        ELSE r2

\* the if / else-if chain on migration_file inside the transaction
RunUnit(s, name) ==
    IF name = M0004 THEN Unit0004(s)
    ELSE IF name = M0008 THEN Unit0008(s)
    ELSE IF name = M0006 THEN Unit0006(s)
    ELSE ExecBatch(s, Body(name))

(***************************************************************************)
(* The ledger: rows of table migrations, name UNIQUE.                      *)
(***************************************************************************)
LedgerNames(l) == {l[i].name : i \in 1..Len(l)}

\* variant: the table keeps the row of the last applied unit only
InsertMigration_KeepLast(l, name, now, io_error) ==
    IF io_error THEN [ok |-> FALSE, l |-> l, err |-> "disk I/O error"]
    ELSE [ok |-> TRUE, l |-> <<[name |-> name, applied_at |-> now]>>, err |-> "none"]

\* INSERT INTO migrations (name, applied_at) VALUES (?1, ?2)
InsertMigration(l, name, now, io_error) ==
    IF io_error THEN [ok |-> FALSE, l |-> l, err |-> "disk I/O error"]
    ELSE IF name \in LedgerNames(l)
    THEN [ok |-> FALSE, l |-> l, err |-> "UNIQUE constraint failed"]
    ELSE [ok |-> TRUE, l |-> Append(l, [name |-> name, applied_at |-> now]), err |-> "none"]

\* variant: every file of the directory is taken as pending
IsPending_Always(appl, name) == TRUE

\* if !applied.contains(&migration_file)
IsPending(appl, name) == name \notin appl

\* variant: an error leaves what the unit had done so far
Transaction_NoRollback(s, l, name, now, io_error) ==
    LET r == RunUnit(s, name)
        i == InsertMigration(l, name, now, io_error)
    IN  IF r.ok /\ i.ok
        THEN [ok |-> TRUE, s |-> r.s, l |-> i.l, err |-> "none"]
        ELSE [ok |-> FALSE, s |-> r.s, l |-> l, err |-> IF r.ok THEN i.err ELSE r.err]

(***************************************************************************)
(* One unit in its transaction: unchecked_transaction, the unit, the       *)
(* ledger insert, commit.  An early return by `?` drops tx, which rolls    *)
(* back: the database is as before the transaction.                        *)
(***************************************************************************)
Transaction(s, l, name, now, io_error) ==
    LET r == RunUnit(s, name)
        i == InsertMigration(l, name, now, io_error)
    IN  IF r.ok /\ i.ok
        THEN [ok |-> TRUE, s |-> r.s, l |-> i.l, err |-> "none"]
        ELSE [ok |-> FALSE, s |-> s, l |-> l, err |-> IF r.ok THEN i.err ELSE r.err]


(***************************************************************************)
(* The defensive reconciler: the checks run_migrations makes against the   *)
(* live schema after the loop over the migration files.                    *)
(***************************************************************************)
\* the block "Ensure attachments table exists and size column exists"
ReconcileAttachments(s) ==
    IF HasTable(s, "attachments")
    THEN AddIfMissing(Ok(s), TableInfo(s, "attachments"), "attachments", "size")
    ELSE CreateTableIfNotExists(s, "attachments", AttachmentsCols)

\* variant: the check of recurrence_parent_id is missing
ReconcileTaskColumns_NoParent(s) ==
    LET columns == TableInfo(s, "tasks")
        r1 == AddIfMissing(Ok(s), columns, "tasks", "recurrence_type")
        r2 == AddIfMissing(r1, columns, "tasks", "recurrence_interval")
        r4 == AddIfMissing(r2, columns, "tasks", "reminder_minutes_before")
    IN  AddIfMissing(r4, columns, "tasks", "notification_repeat")

\* the five column checks under `if tables_exist`, all against one read of
\* pragma_table_info('tasks')
ReconcileTaskColumns(s) ==
    LET columns == TableInfo(s, "tasks")
        r1 == AddIfMissing(Ok(s), columns, "tasks", "recurrence_type")
        r2 == AddIfMissing(r1, columns, "tasks", "recurrence_interval")
        r3 == AddIfMissing(r2, columns, "tasks", "recurrence_parent_id")
        r4 == AddIfMissing(r3, columns, "tasks", "reminder_minutes_before")
    IN  AddIfMissing(r4, columns, "tasks", "notification_repeat")

\* if !templates_table_exists { CREATE TABLE IF NOT EXISTS task_templates }
ReconcileTemplates(s) ==
    IF ~HasTable(s, "task_templates")
    THEN CreateTableIfNotExists(s, "task_templates", TemplatesCols)
    ELSE Ok(s)

\* if !user_progress_exists { create the three gamification tables }
ReconcileGamification(s) ==
    IF ~HasTable(s, "user_progress")
    THEN LET r1 == CreateTableIfNotExists(s, "user_progress", UserProgressCols)
             r2 == CreateTableIfNotExists(r1.s, "badges", BadgesCols)
         IN  CreateTableIfNotExists(r2.s, "xp_history", XpHistoryCols)
    ELSE Ok(s)

\* INSERT OR IGNORE INTO user_progress (id, ...) VALUES ('default', ...),
\* issued only inside `if !user_progress_exists`
ReconcileProgressRows(s, rows) ==
    IF ~HasTable(s, "user_progress") THEN rows \cup {"default"} ELSE rows

\* let tables_exist = COUNT(*) FROM sqlite_master WHERE name = 'tasks' > 0
TablesExist(s) == HasTable(s, "tasks")

\* the whole reconciler: [ok, s, err, rows, tables_exist]
Reconciler(s, rows) ==
    LET a == ReconcileAttachments(s)
        te == TablesExist(a.s)
        c == IF a.ok /\ te THEN ReconcileTaskColumns(a.s) ELSE a
        t == IF c.ok /\ te THEN ReconcileTemplates(c.s) ELSE c
        g == IF t.ok /\ te THEN ReconcileGamification(t.s) ELSE t
    IN  [ok |-> g.ok, s |-> g.s, err |-> g.err,
         rows |-> IF t.ok /\ te THEN ReconcileProgressRows(t.s, rows) ELSE rows,
         tables_exist |-> te]

(***************************************************************************)
(* The bootstrap fallback.                                                 *)
(***************************************************************************)
\* if !tables_exist && applied.is_empty()
BootstrapGate(te, appl) == ~te /\ appl = {}

\* variant: the tasks table of the batch lacks the notification columns
BootstrapBatch_NoNotification(s) ==
    LET s1 == CreateTableIfNotExists(s, "projects", ProjectsCols).s
        s2 == CreateTableIfNotExists(s1, "tasks", TasksBaseCols \cup RecurrenceCols).s
        s3 == CreateTableIfNotExists(s2, "settings", SettingsCols).s
        s4 == CreateTableIfNotExists(s3, "subtasks", SubtasksCols).s
        s5 == CreateTableIfNotExists(s4, "attachments", AttachmentsCols).s
    IN  CreateTableIfNotExists(s5, "task_templates", TemplatesCols).s

\* the batch of CREATE TABLE IF NOT EXISTS statements
BootstrapBatch(s) ==
    LET s1 == CreateTableIfNotExists(s, "projects", ProjectsCols).s
        s2 == CreateTableIfNotExists(s1, "tasks", TasksFullCols).s
        s3 == CreateTableIfNotExists(s2, "settings", SettingsCols).s
        s4 == CreateTableIfNotExists(s3, "subtasks", SubtasksCols).s
        s5 == CreateTableIfNotExists(s4, "attachments", AttachmentsCols).s
    IN  CreateTableIfNotExists(s5, "task_templates", TemplatesCols).s

(***************************************************************************)
(* The seeder.                                                             *)
(***************************************************************************)
\* variant: the row count of the tasks table is not consulted
SeedGate_NoCount(s, count) == HasTable(s, "tasks")

\* table_exists and count = 0: the two early returns of seed_initial_data
SeedGate(s, count) == HasTable(s, "tasks") /\ count = 0


(***************************************************************************)
(* State.                                                                  *)
(***************************************************************************)
VARIABLES
    schema,          \* the database file: existing tables and their columns
    ledger,          \* the database file: rows of table migrations, in insertion order
    task_rows,       \* the database file: number of rows of table tasks
    user_progress,   \* the database file: ids of the rows of table user_progress
    directory,       \* the files of the migration directory shipped with the application
    pc,              \* where the current start-up stands
    applied,         \* run_migrations: the names read from the ledger at its start
    migration_files, \* run_migrations: the sorted names of the migration directory
    idx,             \* run_migrations: position of the loop over migration_files
    tables_exist,    \* run_migrations: the flag computed before the task checks
    run,             \* number of the current start-up, also its clock reading
    steps,           \* steps completed by the current start-up, in order
    executed,        \* units whose transaction was opened by the current start-up
    not_applied,     \* pending units the current start-up could not apply
    env_fault,       \* the environment failed (unreadable file, disk error) in this start-up
    last_err,        \* the error that ended the current start-up, or "none"
    bootstrap_ran,   \* the bootstrap batch was executed by the current start-up
    boot_live,       \* ledger rows and core tables of the file when the batch was decided
    start,           \* schema and ledger when the current start-up began
    prev             \* outcome and schema of the previous start-up

file == <<schema, ledger, task_rows, user_progress>>

locals == <<applied, migration_files, idx, tables_exist>>

history == <<steps, executed, not_applied, env_fault, last_err, bootstrap_ran, boot_live,
             start, prev>>

startup == <<file, directory, pc, run, locals, history>>

\* the running application, after init_db has returned: the shared mutex
\* around the connection and the threads that use it
VARIABLES
    mutex,           \* the thread that holds the MutexGuard, or "free"
    poisoned,        \* a thread panicked while it held the guard
    thread           \* per thread: the command it runs and where it stands

locking == <<mutex, poisoned, thread>>

\* the running application: what the commands below read and write
VARIABLES
    att_rows,        \* the database file: number of rows of table attachments
    att_files,       \* number of files in the attachment storage directory
    att_last,        \* add_attachment: the last request and its outcome
    relationships,   \* the database file: rows of table task_relationships
    rel_last,        \* create_task_relationship: the last request and its outcome
    total_xp,        \* the database file: user_progress.total_xp of row 'default'
    current_level,   \* the database file: user_progress.current_level of row 'default'
    xp_result,       \* grant_xp_internal / revoke_xp_internal: the last GrantXpResult, or NoResult
    xp_history,      \* the database file: rows of table xp_history
    completed,       \* the database file: the tasks whose completed_at is not NULL
    toggled,         \* history: the task the last command completed and the progress
                     \* before that call, or NoToggle
    task_table       \* the database file: rows of table tasks by id (completed_at apart)

attaching == <<att_rows, att_files, att_last>>

relating == <<relationships, rel_last>>

levelling == <<total_xp, current_level, xp_result, xp_history, completed, toggled, task_table>>

VARIABLES
    clock,           \* now(): the wall clock at the latest call that read it for a reminder
    schedule,        \* the database file: rows of table notification_schedule
    calls,           \* number of schedule_notification calls so far
    schedule_last,   \* schedule_notification: its latest call and the rows it inserted
    sent,            \* history: ids of the rows a reminder has been shown for
    cycle_last       \* check_due_notifications: its latest call and the rows it sent

reminding == <<clock, schedule, calls, schedule_last, sent, cycle_last>>

running == <<locking, attaching, relating, levelling, reminding>>

vars == <<startup, running>>

\* the core tables of the baseline schema (attachments apart: the reconciler
\* creates it in every start-up before the fallback is decided)
CoreTables == {"projects", "tasks", "settings", "subtasks"}

\* variant: the fallback is decided right after the loop, the checks come last
After_ReconcileLast(step) ==
    CASE step = "ensure"    -> "Apply"
      [] step = "apply"     -> "Bootstrap"
      [] step = "bootstrap" -> "Seed"
      [] step = "seed"      -> "Reconcile"
      [] step = "reconcile" -> "Ready"

\* program order of init_db: the position reached when a step has completed
After(step) ==
    CASE step = "ensure"    -> "Apply"
      [] step = "apply"     -> "Reconcile"
      [] step = "reconcile" -> "Bootstrap"
      [] step = "bootstrap" -> "Seed"
      [] step = "seed"      -> "Ready"

(***************************************************************************)
(* Database files a start-up may find: a new file, or the file of an       *)
(* earlier version of the application: the baseline tables, the tasks      *)
(* table with any subset of the later columns (attachments with size), or  *)
(* attachments without size and tasks with none or all of them; a ledger   *)
(* recording any set of the units that can commit; no task row.            *)
(***************************************************************************)
LegacySchema(extra, att) ==
    [t \in {"migrations", "projects", "tasks", "settings", "subtasks", "attachments"} |->
        CASE t = "migrations"  -> MigrationsCols
          [] t = "projects"    -> ProjectsCols
          [] t = "tasks"       -> TasksBaseCols \cup extra
          [] t = "settings"    -> SettingsCols
          [] t = "subtasks"    -> SubtasksCols
          [] t = "attachments" -> AttachmentsBaseCols \cup att]

LedgerOf(S) ==
    LET f == SortedFiles(S)
    IN  [i \in 1..Len(f) |-> [name |-> f[i], applied_at |-> 0]]

NoPrev == [outcome |-> "none", schema |-> EmptySchema, same_files |-> FALSE, env_fault |-> FALSE]

NoBoot == [ledger_rows |-> 0, core |-> {}]

InitRun ==
    /\ directory \in SUBSET Units
    /\ pc = "Uninitialized"
    /\ applied = {}
    /\ migration_files = <<>>
    /\ idx = 1
    /\ tables_exist = FALSE
    /\ run = 1
    /\ steps = <<>>
    /\ executed = <<>>
    /\ not_applied = {}
    /\ env_fault = FALSE
    /\ last_err = "none"
    /\ bootstrap_ran = FALSE
    /\ boot_live = NoBoot
    /\ start = [schema |-> schema, ledger |-> ledger]
    /\ prev = NoPrev

InitFresh ==
    /\ schema = EmptySchema
    /\ ledger = <<>>
    /\ task_rows = 0
    /\ user_progress = {}

InitLegacy ==
    /\ \/ \E extra \in SUBSET (RecurrenceCols \cup NotificationCols) :
            schema = LegacySchema(extra, {"size"})
       \/ \E extra \in {{}, RecurrenceCols \cup NotificationCols} :
            schema = LegacySchema(extra, {})
    /\ \E S \in SUBSET (Units \ {M0002}) : ledger = LedgerOf(S)
    /\ task_rows = 0
    /\ user_progress = {}

\* the threads of the process: the one the invoke handler runs plain commands
\* on, one of the runtime's threads for async commands, the notification checker
Threads == {"main", "worker", "timer"}

Idle == [cmd |-> "none", at |-> 1, blocked |-> FALSE]

\* before init_db has returned there is no mutex in use and no command
NotRunning ==
    /\ mutex = "free"
    /\ poisoned = FALSE
    /\ thread = [t \in Threads |-> Idle]

NoRequest == [request |-> <<>>, result |-> "none"]

\* no attachment has been added
NoAttachments ==
    /\ att_rows = 0
    /\ att_files = 0
    /\ att_last = NoRequest

\* no relationship has been created
NoRelationships ==
    /\ relationships = {}
    /\ rel_last = NoRequest

NoResult == [status |-> "none"]

NoToggle == [id |-> "none"]

\* Option<T>: None, Some(v)
None == <<>>
Some(v) == <<v>>

\* one task of each priority, named by its priority
Priorities == {"low", "medium", "high", "urgent"}

\* a point of time, in seconds since the epoch: days * 24 * 60 * 60 + secs
Due(days, secs) == [days |-> days, secs |-> secs]

\* a task as create_task leaves it when only title and priority are given:
\* recurrence_type 'none', recurrence_interval 1, no reminder
PlainTask(priority) ==
    [title |-> priority,
     description |-> None,
     project_id |-> None,
     order_index |-> 0,
     priority |-> priority,
     due_at |-> None,
     recurrence_type |-> "none",
     recurrence_interval |-> 1,
     recurrence_parent_id |-> None,
     reminder_minutes_before |-> None,
     notification_repeat |-> 0]

\* the row the reconciler inserts: ('default', 0, 1, 0, 0, now, now); xp_history
\* is created empty and no task has been completed
DefaultProgress ==
    /\ total_xp = 0
    /\ current_level = 1
    /\ xp_result = NoResult
    /\ xp_history = {}
    /\ completed = {}
    /\ toggled = NoToggle
    /\ task_table = [id \in Priorities |-> PlainTask(id)]

NoCall == [call |-> 0]

NoCycle == [at |-> -1, rows |-> {}]

\* no reminder has been scheduled or shown
NoReminders ==
    /\ clock = 0
    /\ schedule = {}
    /\ calls = 0
    /\ schedule_last = NoCall
    /\ sent = {}
    /\ cycle_last = NoCycle

\* no command has run yet
Quiet == NotRunning /\ NoAttachments /\ NoRelationships /\ DefaultProgress /\ NoReminders

Init == (InitFresh \/ InitLegacy) /\ InitRun /\ Quiet

(***************************************************************************)
(* Steps of a start-up.                                                    *)
(***************************************************************************)
\* init_db up to the loop: open the file, CREATE TABLE IF NOT EXISTS
\* migrations, read the applied names, list and sort the migration directory
EnsureLedger ==
    /\ pc = "Uninitialized"
    /\ schema' = CreateTableIfNotExists(schema, "migrations", MigrationsCols).s
    /\ applied' = LedgerNames(ledger)
    /\ migration_files' = SortedFiles(directory)
    /\ idx' = 1
    /\ steps' = Append(steps, "ensure")
    /\ pc' = After("ensure")
    /\ UNCHANGED <<ledger, task_rows, user_progress, directory, run, tables_exist,
                   executed, not_applied, env_fault, last_err, bootstrap_ran, boot_live,
                   start, prev>>
    /\ UNCHANGED running

\* loop body, applied.contains(&migration_file): nothing is done
SkipApplied ==
    /\ pc = "Apply"
    /\ idx <= Len(migration_files)
    /\ ~IsPending(applied, migration_files[idx])
    /\ idx' = idx + 1
    /\ UNCHANGED <<file, directory, pc, run, applied, migration_files, tables_exist,
                   history>>
    /\ UNCHANGED running

\* loop body, fs::read_to_string fails: `if let Ok(sql)` has no else branch
\* (the environment fails at most once in a start-up)
SkipUnreadable ==
    /\ pc = "Apply"
    /\ idx <= Len(migration_files)
    /\ IsPending(applied, migration_files[idx])
    /\ ~env_fault
    /\ env_fault' = TRUE
    /\ idx' = idx + 1
    /\ not_applied' = not_applied \cup {migration_files[idx]}
    /\ UNCHANGED <<file, directory, pc, run, applied, migration_files, tables_exist,
                   steps, executed, last_err, bootstrap_ran, boot_live, start, prev>>
    /\ UNCHANGED running

\* loop body, the file was read: the unit and its ledger row in one
\* transaction; an error returns from run_migrations and init_db
ApplyMigration ==
    /\ pc = "Apply"
    /\ idx <= Len(migration_files)
    /\ IsPending(applied, migration_files[idx])
    /\ \E io_error \in {FALSE, ~env_fault} :
        LET name == migration_files[idx]
            tx == Transaction(schema, ledger, name, run, io_error)
        IN  /\ schema' = tx.s
            /\ ledger' = tx.l
            /\ executed' = Append(executed, name)
            /\ env_fault' = (env_fault \/ io_error)
            /\ IF tx.ok
               THEN /\ idx' = idx + 1
                    /\ UNCHANGED <<pc, not_applied, last_err>>
               ELSE /\ pc' = "Failed"
                    /\ not_applied' = not_applied \cup {name}
                    /\ last_err' = tx.err
                    /\ UNCHANGED idx
    /\ UNCHANGED <<task_rows, user_progress, directory, run, applied, migration_files,
                   tables_exist, steps, bootstrap_ran, boot_live, start, prev>>
    /\ UNCHANGED running

\* the loop over migration_files has ended
EndApply ==
    /\ pc = "Apply"
    /\ idx > Len(migration_files)
    /\ steps' = Append(steps, "apply")
    /\ pc' = After("apply")
    /\ UNCHANGED <<file, directory, run, locals, executed, not_applied, env_fault,
                   last_err, bootstrap_ran, boot_live, start, prev>>
    /\ UNCHANGED running

\* the safety checks against the live schema
Reconcile ==
    /\ pc = "Reconcile"
    /\ LET r == Reconciler(schema, user_progress)
       IN  /\ tables_exist' = r.tables_exist
           /\ schema' = r.s
           /\ IF r.ok
              THEN /\ user_progress' = r.rows
                   /\ steps' = Append(steps, "reconcile")
                   /\ pc' = After("reconcile")
                   /\ UNCHANGED last_err
              ELSE /\ pc' = "Failed"
                   /\ last_err' = r.err
                   /\ UNCHANGED <<user_progress, steps>>
    /\ UNCHANGED <<ledger, task_rows, directory, run, applied, migration_files, idx,
                   executed, not_applied, env_fault, bootstrap_ran, boot_live, start, prev>>
    /\ UNCHANGED running

\* the fallback: create the baseline tables directly, or pass
Bootstrap ==
    /\ pc = "Bootstrap"
    /\ IF BootstrapGate(tables_exist, applied)
       THEN /\ schema' = BootstrapBatch(schema)
            /\ bootstrap_ran' = TRUE
            /\ boot_live' = [ledger_rows |-> Len(ledger),
                             core |-> CoreTables \cap DOMAIN schema]
       ELSE UNCHANGED <<schema, bootstrap_ran, boot_live>>
    /\ steps' = Append(steps, "bootstrap")
    /\ pc' = After("bootstrap")
    /\ UNCHANGED <<ledger, task_rows, user_progress, directory, run, locals, executed,
                   not_applied, env_fault, last_err, start, prev>>
    /\ UNCHANGED running

\* seed_initial_data, and init_db returns Ok(db)
Seed ==
    /\ pc = "Seed"
    /\ task_rows' = IF SeedGate(schema, task_rows) THEN task_rows + SeedRows ELSE task_rows
    /\ steps' = Append(steps, "seed")
    /\ pc' = After("seed")
    /\ UNCHANGED <<schema, ledger, user_progress, directory, run, locals, executed,
                   not_applied, env_fault, last_err, bootstrap_ran, boot_live, start, prev>>
    /\ UNCHANGED running

\* the application is launched again on the same database file; its
\* migration directory is the same, is not found, or is the complete one
Restart ==
    /\ pc \in {"Ready", "Failed"}
    /\ run < MaxRuns
    /\ run' = run + 1
    /\ pc' = "Uninitialized"
    /\ \E dir \in {directory, {}, Units} :
            /\ directory' = dir
            /\ prev' = [outcome |-> pc, schema |-> schema,
                        same_files |-> (dir = directory), env_fault |-> env_fault]
    /\ applied' = {}
    /\ migration_files' = <<>>
    /\ idx' = 1
    /\ tables_exist' = FALSE
    /\ steps' = <<>>
    /\ executed' = <<>>
    /\ not_applied' = {}
    /\ env_fault' = FALSE
    /\ last_err' = "none"
    /\ bootstrap_ran' = FALSE
    /\ boot_live' = NoBoot
    /\ start' = [schema |-> schema, ledger |-> ledger]
    /\ UNCHANGED file
    /\ UNCHANGED running

Next ==
    \/ EnsureLedger
    \/ SkipApplied
    \/ SkipUnreadable
    \/ ApplyMigration
    \/ EndApply
    \/ Reconcile
    \/ Bootstrap
    \/ Seed
    \/ Restart

Spec == Init /\ [][Next]_vars


(***************************************************************************)
(* Vocabulary of the properties.                                           *)
(***************************************************************************)
\* position of a name in the lexical order of file names
Rank(n) == CHOOSE i \in 1..Len(NameOrder) : NameOrder[i] = n

\* the current start-up began on a new, empty database file
StartedFresh == start.schema = EmptySchema /\ start.ledger = <<>>

\* neither this start-up nor the one before it met a failure of the environment
NoEnvFault == ~env_fault /\ ~prev.env_fault

\* this start-up directly follows a successful one with the same migration directory
SecondOfTwo == run >= 2 /\ prev.outcome = "Ready" /\ prev.same_files

\* the critical facts the reconciler is to establish
CriticalFacts ==
    /\ HasTable(schema, "attachments") /\ "size" \in schema["attachments"]
    /\ HasTable(schema, "tasks")
    /\ (RecurrenceCols \cup NotificationCols) \subseteq schema["tasks"]
    /\ HasTable(schema, "task_templates")
    /\ {"user_progress", "badges", "xp_history"} \subseteq DOMAIN schema
    /\ "default" \in user_progress

\* units whose transaction the current start-up committed
Committed == Range(executed) \ not_applied

(***************************************************************************)
(* C1.  Idempotence of convergence: a start-up that directly follows a     *)
(* successful start-up on the same file with the same migration directory  *)
(* (and no failure of the environment) does not fail, and when it is Ready *)
(* the live schema is the one the first start-up left.                     *)
(***************************************************************************)
C1_SecondRunSameSchema ==
    (SecondOfTwo /\ NoEnvFault) =>
        /\ pc # "Failed"
        /\ (pc = "Ready" => schema = prev.schema)

(***************************************************************************)
(* C2.  Reconciler postcondition: every start-up that ends Ready leaves    *)
(* all critical facts true of the live schema.                             *)
(***************************************************************************)
C2_ReadyHasCriticalFacts == pc = "Ready" => CriticalFacts


(***************************************************************************)
(* C3.  Migration atomicity: a unit's schema changes and its ledger row    *)
(* are committed together or not at all.  A transaction that fails leaves  *)
(* schema and ledger as they were and the unit unrecorded (so pending at   *)
(* the next start-up); a name is in the ledger only if it was there when   *)
(* the start-up began or its transaction committed.                        *)
(***************************************************************************)
C3_TransactionStep ==
    (pc = "Apply" /\ Len(executed') > Len(executed)) =>
        LET name == migration_files[idx]
        IN  \/ /\ pc' = "Apply"
               /\ RunUnit(schema, name).ok
               /\ schema' = RunUnit(schema, name).s
               /\ LedgerNames(ledger') = LedgerNames(ledger) \cup {name}
            \/ /\ pc' = "Failed"
               /\ schema' = schema
               /\ ledger' = ledger
               /\ name \notin LedgerNames(ledger')

C3_Atomicity ==
    /\ [](LedgerNames(ledger) = LedgerNames(start.ledger) \cup Committed)
    /\ [](not_applied \cap LedgerNames(ledger) = {})
    /\ [][C3_TransactionStep]_vars

\* 0002_broken.sql failed after creating its table: nothing of it is left
C3_Witness ==
    /\ pc = "Failed"
    /\ M0002 \in not_applied
    /\ last_err = "no such table"
    /\ ~HasTable(schema, "scratch")
    /\ M0002 \notin LedgerNames(ledger)

(***************************************************************************)
(* C4.  No skip-and-continue: a start-up in which a pending unit could not *)
(* be applied does not end Ready, applies no unit with a larger name, and  *)
(* runs none of the reconcile, bootstrap and seed steps.                   *)
(***************************************************************************)
C4_NoSkipAndContinue ==
    /\ pc = "Ready" => not_applied = {}
    /\ \A u \in not_applied : \A c \in Committed : Rank(c) < Rank(u)
    /\ not_applied # {} => Range(steps) \cap {"reconcile", "bootstrap", "seed"} = {}

(***************************************************************************)
(* C5.  At-most-once application: the ledger never holds two rows with the *)
(* same name, and no transaction is opened for a unit whose name is in the *)
(* ledger.                                                                 *)
(***************************************************************************)
C5_ExecutesOnlyUnrecorded ==
    Len(executed') > Len(executed) =>
        executed'[Len(executed')] \notin LedgerNames(ledger)

C5_AtMostOnce ==
    /\ [](Cardinality(LedgerNames(ledger)) = Len(ledger))
    /\ [][C5_ExecutesOnlyUnrecorded]_vars

\* a later start-up found recorded units in its directory and ran none of them
C5_Witness ==
    /\ run >= 2
    /\ pc = "Ready"
    /\ Range(migration_files) \cap applied # {}
    /\ Range(executed) \cap applied = {}
    /\ \E n \in Range(migration_files) \cap applied :
            \E i \in 1..Len(ledger) : ledger[i].name = n /\ ledger[i].applied_at >= 1

(***************************************************************************)
(* C6.  Bootstrap gating: the bootstrap batch is executed only when, at    *)
(* the point where the fallback is decided, the ledger of the file has no  *)
(* row and no core table exists.                                           *)
(***************************************************************************)
C6_BootstrapGated ==
    bootstrap_ran => (boot_live.ledger_rows = 0 /\ boot_live.core = {})

(***************************************************************************)
(* C7.  Bootstrap-only path: on an empty file with an empty ledger and an  *)
(* empty catalog the migration sequence does not fail and leaves the       *)
(* complete baseline schema, with no row in any table before the seeder.   *)
(***************************************************************************)
C7_BootstrapOnly ==
    (StartedFresh /\ directory = {}) =>
        /\ pc # "Failed"
        /\ pc \in {"Seed", "Ready"} =>
            /\ bootstrap_ran
            /\ {"projects", "tasks", "settings", "subtasks", "attachments",
                "task_templates"} \subseteq DOMAIN schema
            /\ schema["projects"] = ProjectsCols
            /\ schema["tasks"] = TasksFullCols
            /\ schema["settings"] = SettingsCols
            /\ schema["subtasks"] = SubtasksCols
            /\ schema["attachments"] = AttachmentsCols
            /\ schema["task_templates"] = TemplatesCols
        /\ pc = "Seed" => (task_rows = 0 /\ user_progress = {} /\ ledger = <<>>)

C7_Witness ==
    /\ StartedFresh
    /\ directory = {}
    /\ pc = "Seed"
    /\ bootstrap_ran
    /\ schema["tasks"] = TasksFullCols


(***************************************************************************)
(* C8.  No re-add of an existing column: neither a column-guarded unit nor *)
(* the reconciler issues ALTER TABLE ADD COLUMN for a column the live      *)
(* table has, so no start-up ends on a duplicate column; on an existing    *)
(* table each of them adds the missing target columns and nothing else.    *)
(***************************************************************************)
GuardedTable(name) == IF name = M0008 THEN "attachments" ELSE "tasks"

GuardedCols(name) ==
    IF name = M0004 THEN RecurrenceCols
    ELSE IF name = M0006 THEN NotificationCols
    ELSE {"size"}

C8_GuardedUnitStep ==
    (/\ pc = "Apply" /\ pc' = "Apply"
     /\ Len(executed') > Len(executed)
     /\ migration_files[idx] \in {M0004, M0006, M0008}) =>
        LET name == migration_files[idx]
            t == GuardedTable(name)
        IN  /\ HasTable(schema, t)
            /\ schema'[t] = schema[t] \cup GuardedCols(name)
            /\ \A x \in DOMAIN schema \ {t} : schema'[x] = schema[x]

C8_ReconcileStep ==
    (pc = "Reconcile" /\ pc' # "Reconcile") =>
        /\ pc' = "Bootstrap"
        /\ HasTable(schema, "attachments") =>
                schema'["attachments"] = schema["attachments"] \cup {"size"}
        /\ HasTable(schema, "tasks") =>
                schema'["tasks"] = schema["tasks"] \cup RecurrenceCols \cup NotificationCols

C8_NoReAdd ==
    /\ [](last_err # "duplicate column name")
    /\ [][C8_GuardedUnitStep]_vars
    /\ [][C8_ReconcileStep]_vars

\* an empty ledger and a tasks table that has some of the recurrence columns:
\* the guarded unit ran, committed, and the start-up is Ready
C8_Witness ==
    /\ pc = "Ready"
    /\ start.ledger = <<>>
    /\ HasTable(start.schema, "tasks")
    /\ "recurrence_type" \in start.schema["tasks"]
    /\ "recurrence_parent_id" \notin start.schema["tasks"]
    /\ M0004 \in Committed
    /\ RecurrenceCols \subseteq schema["tasks"]

(***************************************************************************)
(* C9.  Ledger-independent repair: whatever the ledger records, a start-up *)
(* that ends Ready on a file whose tasks (attachments) table existed has   *)
(* added exactly the missing recurrence and notification columns (size).   *)
(***************************************************************************)
C9_RepairedAtReady ==
    pc = "Ready" =>
        /\ HasTable(start.schema, "tasks") =>
                schema["tasks"] = start.schema["tasks"] \cup RecurrenceCols \cup NotificationCols
        /\ HasTable(start.schema, "attachments") =>
                schema["attachments"] = start.schema["attachments"] \cup {"size"}

\* the ledger records 0004_add_recurrence.sql, the unit is skipped, and the
\* column it should have added was missing and is now there
C9_Witness ==
    /\ pc = "Ready"
    /\ M0004 \in LedgerNames(start.ledger)
    /\ M0004 \in Range(migration_files)
    /\ M0004 \notin Range(executed)
    /\ HasTable(start.schema, "tasks")
    /\ "recurrence_parent_id" \notin start.schema["tasks"]
    /\ "recurrence_parent_id" \in schema["tasks"]

(***************************************************************************)
(* C10.  Start-up ordering: the steps of a start-up are completed at most  *)
(* once each and in the order ensure, apply, reconcile, bootstrap, seed;   *)
(* the bootstrap decision and the seeder come only after the reconciler,   *)
(* task rows are inserted only by the seeder, and Ready is reached only    *)
(* after all five steps.                                                   *)
(***************************************************************************)
StepOrder == <<"ensure", "apply", "reconcile", "bootstrap", "seed">>

C10_SeedStep ==
    task_rows' # task_rows =>
        (steps = SubSeq(StepOrder, 1, 4) /\ steps' = StepOrder)

C10_Ordering ==
    /\ [](/\ Len(steps) <= Len(StepOrder)
          /\ steps = SubSeq(StepOrder, 1, Len(steps)))
    /\ [](pc = "Ready" => steps = StepOrder)
    /\ [](pc \in {"Bootstrap", "Seed", "Ready"} => "reconcile" \in Range(steps))
    /\ [](pc = "Failed" => "seed" \notin Range(steps))
    /\ [](bootstrap_ran => "reconcile" \in Range(steps))
    /\ [][C10_SeedStep]_vars

\* an empty catalog: no unit was applied, and all five steps were taken
C10_Witness ==
    /\ pc = "Ready"
    /\ migration_files = <<>>
    /\ executed = <<>>
    /\ steps = StepOrder

(***************************************************************************)
(* C11.  Seed-once: the seeder inserts nothing when the tasks table holds  *)
(* a row and nothing when the tasks table does not exist, and in both      *)
(* cases the start-up goes on to Ready; the example rows are inserted into *)
(* an existing, empty tasks table only, so the table never holds more than *)
(* one copy of them, however many start-ups follow each other.             *)
(***************************************************************************)
C11_SeederStep ==
    (pc = "Seed" /\ pc' # "Seed") =>
        /\ pc' = "Ready"
        /\ (task_rows >= 1 \/ ~HasTable(schema, "tasks")) => task_rows' = task_rows
        /\ task_rows' # task_rows =>
                (HasTable(schema, "tasks") /\ task_rows = 0 /\ task_rows' = SeedRows)

C11_SeedOnce ==
    /\ [](task_rows \in {0, SeedRows})
    /\ [](~HasTable(schema, "tasks") => task_rows = 0)
    /\ [][C11_SeederStep]_vars

\* the second of two successful start-ups: its seeder found the rows the first
\* one inserted and added none
C11_Witness ==
    /\ run = 2
    /\ pc = "Ready"
    /\ prev.outcome = "Ready"
    /\ "seed" \in Range(steps)
    /\ task_rows = SeedRows

\* a start-up whose seeder found no tasks table, and is Ready with no task row
C11_NoTableWitness ==
    /\ pc = "Ready"
    /\ "seed" \in Range(steps)
    /\ ~HasTable(schema, "tasks")
    /\ task_rows = 0

(***************************************************************************)
(* C12.  Pending computation and order: the units a start-up executes are  *)
(* names of the catalog absent from the ledger it found, in ascending      *)
(* order of name; a unit is executed only when every pending unit with a   *)
(* smaller name is applied and recorded; a start-up that ends Ready has    *)
(* executed every pending unit.                                            *)
(***************************************************************************)
Pending == directory \ LedgerNames(start.ledger)

C12_PendingInOrder ==
    /\ Range(executed) \subseteq Pending
    /\ \A i, j \in 1..Len(executed) : i < j => Rank(executed[i]) < Rank(executed[j])
    /\ \A e \in Range(executed) : \A u \in Pending :
            Rank(u) < Rank(e) => u \in LedgerNames(ledger)
    /\ pc = "Ready" => Range(executed) = Pending

(***************************************************************************)
(* C13.  Ledger equals catalog after success: a start-up that began on a   *)
(* new, empty file and ends Ready leaves one ledger row for each unit of   *)
(* the catalog and no other row, and the schema effect of each unit: for   *)
(* 0001_init.sql, table projects with exactly the columns id and name.     *)
(***************************************************************************)
SchemaEffect(s, name) ==
    CASE name = M0001 -> HasTable(s, "projects") /\ s["projects"] = {"id", "name"}
      [] name = M0002 -> HasTable(s, "scratch")
      [] name = M0004 -> RecurrenceCols \subseteq TableInfo(s, "tasks")
      [] name = M0006 -> NotificationCols \subseteq TableInfo(s, "tasks")
      [] name = M0008 -> "size" \in TableInfo(s, "attachments")

C13_LedgerEqualsCatalog ==
    (StartedFresh /\ pc = "Ready") =>
        /\ LedgerNames(ledger) = directory
        /\ Len(ledger) = Cardinality(directory)
        /\ \A name \in directory : SchemaEffect(schema, name)

(***************************************************************************)
(* C14.  Ledger append-only: every step of a start-up leaves the rows of   *)
(* table migrations as they are or appends one row, so the (name,          *)
(* applied_at) records of the file at any point of a start-up, Ready or    *)
(* Failed, include the records it had when the start-up began.             *)
(***************************************************************************)
C14_LedgerStep ==
    /\ Len(ledger') \in {Len(ledger), Len(ledger) + 1}
    /\ SubSeq(ledger', 1, Len(ledger)) = ledger

C14_AppendOnly ==
    /\ [](Range(start.ledger) \subseteq Range(ledger))
    /\ [][C14_LedgerStep]_vars

\* a second start-up that found rows and added one: rows of both are there
C14_Witness ==
    /\ run = 2
    /\ pc \in {"Ready", "Failed"}
    /\ start.ledger # <<>>
    /\ Len(ledger) > Len(start.ledger)
    /\ \E i \in 1..Len(ledger) : ledger[i].applied_at = 1
    /\ ledger[Len(ledger)].applied_at = 2


(***************************************************************************)
(* The running application.  init_db has returned and its connection is    *)
(* wrapped in one Arc<Mutex<DbConnection>>; commands reach the connection  *)
(* through the guard that lock() returns.  The file the specifications of  *)
(* the running application start from is the one two start-ups in a row    *)
(* leave on a new file with no migration directory: the baseline tables of *)
(* the fallback, and the gamification tables with the row 'default'.       *)
(***************************************************************************)
FirstSchema ==
    BootstrapBatch(
        Reconciler(CreateTableIfNotExists(EmptySchema, "migrations", MigrationsCols).s, {}).s)

StartedSchema == Reconciler(FirstSchema, {}).s

AppStarted ==
    /\ schema = StartedSchema
    /\ ledger = <<>>
    /\ task_rows = SeedRows
    /\ user_progress = {"default"}
    /\ directory = {}
    /\ pc = "Ready"
    /\ applied = {}
    /\ migration_files = <<>>
    /\ idx = 1
    /\ tables_exist = TRUE
    /\ run = 2
    /\ steps = StepOrder
    /\ executed = <<>>
    /\ not_applied = {}
    /\ env_fault = FALSE
    /\ last_err = "none"
    /\ bootstrap_ran = FALSE
    /\ boot_live = NoBoot
    /\ start = [schema |-> FirstSchema, ledger |-> <<>>]
    /\ prev = [outcome |-> "Ready", schema |-> FirstSchema, same_files |-> TRUE,
               env_fault |-> FALSE]

(***************************************************************************)
(* Commands as sequences of the operations that matter to the mutex:       *)
(*   lock      db.lock(): returns the guard, or parks the thread           *)
(*   unlock    the guard goes out of scope                                 *)
(*   net       an await on detect_language / translate_text begins         *)
(*   net_done  the await has returned                                      *)
(*   copy      fs::copy on the database file begins                        *)
(*   copy_done the copy has returned                                       *)
(***************************************************************************)
\* commands that are plain functions
SyncKinds == {"crud", "update_template", "create_backup", "restore_backup"}

\* commands that are async functions
AsyncKinds == {"translate_task_content", "save_translation_override", "get_translation"}

Kinds(t) ==
    CASE t = "main"   -> SyncKinds
      [] t = "worker" -> AsyncKinds
      [] t = "timer"  -> {"check_due_notifications"}

\* one guard scope
Scope == <<"lock", "unlock">>

\* one await on the network
Await == <<"net", "net_done">>

\* fs::copy
Copy == <<"copy", "copy_done">>

\* variant: get_translation keeps its first guard until detect_language returns
Program_GuardAcrossAwait(kind) ==
    CASE kind = "crud"                      -> Scope
      [] kind = "check_due_notifications"   -> Scope
      [] kind = "update_template"           -> Scope \o Scope
      [] kind = "create_backup"             -> Copy
      [] kind = "restore_backup"            -> Copy \o Copy
      [] kind = "save_translation_override" -> Scope \o Await \o Scope
      [] kind = "get_translation"           ->
            <<"lock">> \o Await \o <<"unlock">> \o Scope \o Await \o Scope
      [] kind = "translate_task_content"    ->
            Scope \o Await
                \o Scope \o Await \o Scope \o Await \o Scope
                \o Scope \o Await \o Scope \o Await \o Scope

\* the operations of a command, in program order
Program(kind) ==
    CASE kind = "crud"                      -> Scope
      [] kind = "check_due_notifications"   -> Scope
      [] kind = "update_template"           -> Scope \o Scope
      [] kind = "create_backup"             -> Copy
      [] kind = "restore_backup"            -> Copy \o Copy
      [] kind = "save_translation_override" -> Scope \o Await \o Scope
      [] kind = "get_translation"           -> Scope \o Await \o Scope \o Await \o Scope
      [] kind = "translate_task_content"    ->
            Scope \o Await
                \o Scope \o Await \o Scope \o Await \o Scope
                \o Scope \o Await \o Scope \o Await \o Scope

\* translate_task_content: where the title was found in a cache, and where
\* the description begins
CachedTitle(kind, at) ==
    /\ kind = "translate_task_content"
    /\ at \in {Len(Scope \o Await \o Scope) + 1,
               Len(Scope \o Await \o Scope \o Await \o Scope) + 1}

DescriptionStart == Len(Scope \o Await \o Scope \o Await \o Scope \o Await \o Scope) + 1

\* the operation a thread is about to perform ("none": no command, or at its end)
Op(t) ==
    IF thread[t].cmd = "none" \/ thread[t].at > Len(Program(thread[t].cmd))
    THEN "none"
    ELSE Program(thread[t].cmd)[thread[t].at]

\* the operation a thread performed last
LastOp(t) ==
    IF thread[t].cmd = "none" \/ thread[t].at = 1
    THEN "none"
    ELSE Program(thread[t].cmd)[thread[t].at - 1]

Advance(t) == thread' = [thread EXCEPT ![t].at = @ + 1, ![t].blocked = FALSE]

BackToIdle(t) == thread' = [thread EXCEPT ![t] = Idle]

\* what the steps of the threads leave alone
NotLocking == <<startup, attaching, relating, levelling, reminding>>

LockingInit == AppStarted /\ Quiet

\* the invoke handler starts a command
Invoke(t, kind) ==
    /\ t # "timer"
    /\ thread[t].cmd = "none"
    /\ kind \in Kinds(t)
    /\ thread' = [thread EXCEPT ![t] = [cmd |-> kind, at |-> 1, blocked |-> FALSE]]
    /\ UNCHANGED <<mutex, poisoned>>
    /\ UNCHANGED NotLocking

\* the notification thread wakes up after its sleep of sixty seconds
TimerFire ==
    /\ thread["timer"].cmd = "none"
    /\ thread' = [thread EXCEPT !["timer"] =
                        [cmd |-> "check_due_notifications", at |-> 1, blocked |-> FALSE]]
    /\ UNCHANGED <<mutex, poisoned>>
    /\ UNCHANGED NotLocking

\* lock() while another thread holds the guard: the caller is parked
LockParked(t) ==
    /\ Op(t) = "lock"
    /\ ~thread[t].blocked
    /\ mutex # "free"
    /\ thread' = [thread EXCEPT ![t].blocked = TRUE]
    /\ UNCHANGED <<mutex, poisoned>>
    /\ UNCHANGED NotLocking

\* lock() returns Ok(guard), at once or after having been parked
LockAcquired(t) ==
    /\ Op(t) = "lock"
    /\ mutex = "free"
    /\ ~poisoned
    /\ mutex' = t
    /\ Advance(t)
    /\ UNCHANGED poisoned
    /\ UNCHANGED NotLocking

\* lock() returns Err(PoisonError): map_err(..)? in a command, the failed
\* `if let Ok(db_lock)` in the notification thread
LockPoisoned(t) ==
    /\ Op(t) = "lock"
    /\ mutex = "free"
    /\ poisoned
    /\ BackToIdle(t)
    /\ UNCHANGED <<mutex, poisoned>>
    /\ UNCHANGED NotLocking

\* the guard is dropped at the end of its scope
Unlock(t) ==
    /\ Op(t) = "unlock"
    /\ mutex = t
    /\ mutex' = "free"
    /\ Advance(t)
    /\ UNCHANGED poisoned
    /\ UNCHANGED NotLocking

\* a panic inside a guard scope of an async command (now() unwraps the clock)
Panic(t) ==
    /\ t = "worker"
    /\ mutex = t
    /\ mutex' = "free"
    /\ poisoned' = TRUE
    /\ BackToIdle(t)
    /\ UNCHANGED NotLocking

NetCall(t) ==
    /\ Op(t) = "net"
    /\ Advance(t)
    /\ UNCHANGED <<mutex, poisoned>>
    /\ UNCHANGED NotLocking

NetReturn(t) ==
    /\ Op(t) = "net_done"
    /\ Advance(t)
    /\ UNCHANGED <<mutex, poisoned>>
    /\ UNCHANGED NotLocking

CopyBegin(t) ==
    /\ Op(t) = "copy"
    /\ Advance(t)
    /\ UNCHANGED <<mutex, poisoned>>
    /\ UNCHANGED NotLocking

CopyEnd(t) ==
    /\ Op(t) = "copy_done"
    /\ Advance(t)
    /\ UNCHANGED <<mutex, poisoned>>
    /\ UNCHANGED NotLocking

\* translate_task_content: the title came from a cache, on to the description
CacheHit(t) ==
    /\ thread[t].cmd # "none"
    /\ CachedTitle(thread[t].cmd, thread[t].at)
    /\ thread' = [thread EXCEPT ![t].at = DescriptionStart]
    /\ UNCHANGED <<mutex, poisoned>>
    /\ UNCHANGED NotLocking

\* a `?` or an early return between two operations
Return(t) ==
    /\ Op(t) # "none"
    /\ ~thread[t].blocked
    /\ LastOp(t) \in {"unlock", "net_done", "copy_done"}
    /\ BackToIdle(t)
    /\ UNCHANGED <<mutex, poisoned>>
    /\ UNCHANGED NotLocking

\* the command has run to its end
Finish(t) ==
    /\ thread[t].cmd # "none"
    /\ thread[t].at > Len(Program(thread[t].cmd))
    /\ BackToIdle(t)
    /\ UNCHANGED <<mutex, poisoned>>
    /\ UNCHANGED NotLocking

LockingNext ==
    \/ \E t \in Threads : \E kind \in SyncKinds \cup AsyncKinds : Invoke(t, kind)
    \/ TimerFire
    \/ \E t \in Threads : LockParked(t)
    \/ \E t \in Threads : LockAcquired(t)
    \/ \E t \in Threads : LockPoisoned(t)
    \/ \E t \in Threads : Unlock(t)
    \/ \E t \in Threads : Panic(t)
    \/ \E t \in Threads : NetCall(t)
    \/ \E t \in Threads : NetReturn(t)
    \/ \E t \in Threads : CopyBegin(t)
    \/ \E t \in Threads : CopyEnd(t)
    \/ \E t \in Threads : CacheHit(t)
    \/ \E t \in Threads : Return(t)
    \/ \E t \in Threads : Finish(t)

LockingSpec == LockingInit /\ [][LockingNext]_vars

\* the threads that are accessing the database or its file
Accessing ==
    {t \in Threads : mutex = t \/ (LastOp(t) = "copy" /\ Op(t) = "copy_done")}

\* the threads with a network call in flight
InFlight(t) == LastOp(t) = "net" /\ Op(t) = "net_done"

(***************************************************************************)
(* C15.  Strict mutual exclusion: at no time do two threads access the     *)
(* database or the database file together.                                 *)
(***************************************************************************)
C15_MutualExclusion == Cardinality(Accessing) <= 1

(***************************************************************************)
(* C16.  The notification thread does not wait for the mutex: it is never  *)
(* parked in lock() behind a command.                                      *)
(***************************************************************************)
C16_TimerNeverWaits == ~thread["timer"].blocked

(***************************************************************************)
(* C17.  Lock released across external I/O: no thread holds the guard      *)
(* while its network call is in flight, and what follows the return of a   *)
(* network call in the three translation commands is a new guard scope.    *)
(***************************************************************************)
C17_AfterAwait ==
    \A t \in Threads :
        (InFlight(t) /\ thread'[t] # thread[t]) =>
            /\ thread'[t].cmd = thread[t].cmd
            /\ thread'[t].at = thread[t].at + 1
            /\ Program(thread[t].cmd)[thread'[t].at] = "lock"

C17_NoGuardAcrossAwait ==
    /\ [](\A t \in Threads : InFlight(t) => mutex # t)
    /\ [][C17_AfterAwait]_vars

\* translate_text is in flight for a title while a plain command holds the guard
C17_Witness ==
    /\ thread["worker"].cmd = "translate_task_content"
    /\ InFlight("worker")
    /\ thread["worker"].at = DescriptionStart - Len(Scope) - 1
    /\ mutex = "main"
    /\ thread["main"].cmd = "crud"


(***************************************************************************)
(* Attachments.  A file path is a sequence of characters; the paths tried  *)
(* are file names (no directory separator).                                *)
(***************************************************************************)
MaxPathLen == 4

MaxAttachments == 2

LowerCase ==
    <<"a", "b", "c", "d", "e", "f", "g", "h", "i", "j", "k", "l", "m", "n",
    "o", "p", "q", "r", "s", "t", "u", "v", "w", "x", "y", "z">>

UpperCase ==
    <<"A", "B", "C", "D", "E", "F", "G", "H", "I", "J", "K", "L", "M", "N",
    "O", "P", "Q", "R", "S", "T", "U", "V", "W", "X", "Y", "Z">>

\* str::to_lowercase, on the letters of the paths tried
ToLowerCase(w) ==
    [i \in DOMAIN w |->
        IF \E k \in DOMAIN UpperCase : UpperCase[k] = w[i]
        THEN LowerCase[CHOOSE k \in DOMAIN UpperCase : UpperCase[k] = w[i]]
        ELSE w[i]]

ToUpperCase(w) ==
    [i \in DOMAIN w |->
        IF \E k \in DOMAIN LowerCase : LowerCase[k] = w[i]
        THEN UpperCase[CHOOSE k \in DOMAIN LowerCase : LowerCase[k] = w[i]]
        ELSE w[i]]

\* Path::extension of a file name: what follows the last dot; None when
\* there is no dot, when the only dot is the first character, and for ".."
Extension(path) ==
    LET dots == {i \in DOMAIN path : path[i] = "."}
        last == CHOOSE i \in dots : \A j \in dots : j <= i
    IN  IF dots = {} \/ path = <<".", ".">> THEN [some |-> FALSE, ext |-> <<>>]
        ELSE IF last = 1 THEN [some |-> FALSE, ext |-> <<>>]
        ELSE [some |-> TRUE, ext |-> SubSeq(path, last + 1, Len(path))]

\* variant: executables are let through
AllowedExtensions_WithExe ==
    {<<"e", "x", "e">>,
     <<"p", "n", "g">>,
     <<"j", "p", "g">>,
     <<"j", "p", "e", "g">>,
     <<"g", "i", "f">>,
     <<"w", "e", "b", "p">>,
     <<"b", "m", "p">>,
     <<"s", "v", "g">>,
     <<"i", "c", "o">>,
     <<"p", "d", "f">>,
     <<"t", "x", "t">>,
     <<"m", "d">>,
     <<"m", "p", "4">>,
     <<"w", "e", "b", "m">>,
     <<"m", "o", "v">>,
     <<"m", "p", "3">>,
     <<"w", "a", "v">>,
     <<"o", "g", "g">>}

\* allowed_extensions
AllowedExtensions ==
    {
     <<"p", "n", "g">>,
     <<"j", "p", "g">>,
     <<"j", "p", "e", "g">>,
     <<"g", "i", "f">>,
     <<"w", "e", "b", "p">>,
     <<"b", "m", "p">>,
     <<"s", "v", "g">>,
     <<"i", "c", "o">>,
     <<"p", "d", "f">>,
     <<"t", "x", "t">>,
     <<"m", "d">>,
     <<"m", "p", "4">>,
     <<"w", "e", "b", "m">>,
     <<"m", "o", "v">>,
     <<"m", "p", "3">>,
     <<"w", "a", "v">>,
     <<"o", "g", "g">>}

\* validate_file_type(..).is_ok()
ValidateFileType(path) ==
    LET extension == Extension(path)
        ext == IF extension.some THEN ToLowerCase(extension.ext) ELSE <<>>
    IN  ext \in AllowedExtensions

\* the arms of the match of get_mime_type
MimeOf(ext) ==
    CASE ext = <<"p", "n", "g">> -> "image/png"
      [] ext = <<"j", "p", "g">> -> "image/jpeg"
      [] ext = <<"j", "p", "e", "g">> -> "image/jpeg"
      [] ext = <<"g", "i", "f">> -> "image/gif"
      [] ext = <<"w", "e", "b", "p">> -> "image/webp"
      [] ext = <<"b", "m", "p">> -> "image/bmp"
      [] ext = <<"s", "v", "g">> -> "image/svg+xml"
      [] ext = <<"i", "c", "o">> -> "image/x-icon"
      [] ext = <<"p", "d", "f">> -> "application/pdf"
      [] ext = <<"t", "x", "t">> -> "text/plain"
      [] ext = <<"m", "d">> -> "text/markdown"
      [] ext = <<"m", "p", "4">> -> "video/mp4"
      [] ext = <<"w", "e", "b", "m">> -> "video/webm"
      [] ext = <<"m", "o", "v">> -> "video/quicktime"
      [] ext = <<"m", "p", "3">> -> "audio/mpeg"
      [] ext = <<"w", "a", "v">> -> "audio/wav"
      [] ext = <<"o", "g", "g">> -> "audio/ogg"
      [] OTHER -> "NULL"

\* get_mime_type: None is "NULL"
GetMimeType(path) ==
    LET extension == Extension(path)
    IN  IF extension.some THEN MimeOf(ToLowerCase(extension.ext)) ELSE "NULL"

\* the file names tried: every name of up to MaxPathLen characters over
\* three characters, and a name for each allowed extension, in lower and in
\* upper case, and for some extensions that are not allowed
PathChars == {".", "m", "D"}

OtherExtensions == {<<"e", "x", "e">>, <<"z", "i", "p">>, <<"p", "n">>, <<"p", "n", "g", "s">>}

FileNames ==
    UNION {[1..k -> PathChars] : k \in 0..MaxPathLen}
        \cup {<<"f", ".">> \o e : e \in AllowedExtensions \cup OtherExtensions}
        \cup {<<"f", ".">> \o ToUpperCase(e) : e \in AllowedExtensions \cup OtherExtensions}

NotAttaching == <<startup, locking, relating, levelling, reminding>>

AttachInit == AppStarted /\ Quiet

\* add_attachment: validate, copy the file to the storage, insert the row
\* (the storage takes up to MaxAttachments files)
AddAttachment(file_path) ==
    /\ IF ~ValidateFileType(file_path)
       THEN /\ att_last' = [request |-> file_path, result |-> "rejected", mime |-> "NULL"]
            /\ UNCHANGED <<att_rows, att_files>>
       ELSE /\ att_files < MaxAttachments
            /\ \E outcome \in {"ok", "copy failed", "insert failed"} :
                CASE outcome = "copy failed" ->
                        /\ att_last' = [request |-> file_path, result |-> outcome,
                                        mime |-> "NULL"]
                        /\ UNCHANGED <<att_rows, att_files>>
                  [] outcome = "insert failed" ->
                        /\ att_last' = [request |-> file_path, result |-> outcome,
                                        mime |-> "NULL"]
                        /\ att_files' = att_files + 1
                        /\ UNCHANGED att_rows
                  [] outcome = "ok" ->
                        /\ att_last' = [request |-> file_path, result |-> outcome,
                                        mime |-> GetMimeType(file_path)]
                        /\ att_files' = att_files + 1
                        /\ att_rows' = att_rows + 1
    /\ UNCHANGED NotAttaching

AttachNext == \E file_path \in FileNames : AddAttachment(file_path)

AttachSpec == AttachInit /\ [][AttachNext]_vars

(***************************************************************************)
(* C18.  Attachment type gate: a file is accepted exactly when its name is *)
(* a non-empty stem, a dot and an extension of the allow-list in any       *)
(* letter case; get_mime_type has a MIME type for exactly the accepted     *)
(* names, so the row of an accepted file has a non-null MIME type; a       *)
(* rejected file leaves table attachments and the storage as they were.    *)
(***************************************************************************)
\* the name ends in a dot that is not its first character and an allowed extension
HasAllowedExtension(path) ==
    \E k \in 2..Len(path) :
        /\ path[k] = "."
        /\ ToLowerCase(SubSeq(path, k + 1, Len(path))) \in AllowedExtensions

C18_GateStep ==
    (att_last' # att_last /\ att_last'.result = "rejected") =>
        (att_rows' = att_rows /\ att_files' = att_files)

C18_AttachmentGate ==
    /\ [](att_last.result # "none" =>
            /\ att_last.result # "rejected" <=> HasAllowedExtension(att_last.request)
            /\ att_last.result # "rejected" <=> GetMimeType(att_last.request) # "NULL"
            /\ att_last.result = "ok" => att_last.mime # "NULL")
    /\ [][C18_GateStep]_vars

\* m.mD was accepted and stored as text/markdown
C18_Witness ==
    /\ att_last.result = "ok"
    /\ att_last.request = <<"m", ".", "m", "D">>
    /\ att_last.mime = "text/markdown"
    /\ att_rows = 1

\* .mD, a name without extension, was rejected after a file had been stored
C18_RejectWitness ==
    /\ att_last.result = "rejected"
    /\ att_last.request = <<".", "m", "D">>
    /\ att_rows = 1
    /\ att_files = 1


(***************************************************************************)
(* Task relationships.  A row of task_relationships is (task_id_1,         *)
(* task_id_2, relationship_type); with type 'blocks', task_id_1 blocks     *)
(* task_id_2.  The table accepts one row for a pair (task_id_1,            *)
(* task_id_2): the command maps the UNIQUE failure of its INSERT to        *)
(* "Relationship already exists between these tasks".                      *)
(***************************************************************************)
DepthLimit == 100

Tasks == {"a", "b", "c"}

\* SELECT tr.task_id_1 .. ON tr.task_id_2 = dc.task_id WHERE type = 'blocks'
Blockers(rel, level) ==
    {r.task_id_1 : r \in {x \in rel : x.relationship_type = "blocks" /\ x.task_id_2 \in level}}

\* the task ids of the rows of dependency_chain: `seen` are those of the rows
\* of a smaller depth, `level` those of the rows at `depth`; a row joins again
\* while its depth is below DepthLimit, and rows whose ids were all seen
\* bring no new id
RECURSIVE DependencyChain(_, _, _, _)
DependencyChain(rel, seen, level, depth) ==
    IF level \subseteq seen \/ depth > DepthLimit THEN seen
    ELSE DependencyChain(rel, seen \cup level, Blockers(rel, level), depth + 1)

\* check_circular_dependency_internal: COUNT(*) > 0
CheckCircularDependency(rel, blocking_task_id, blocked_task_id) ==
    blocking_task_id \in DependencyChain(rel, {}, {blocked_task_id}, 0)

\* the UNIQUE constraint of the table
RelUnique(rel, task_id_1, task_id_2) ==
    ~\E r \in rel : r.task_id_1 = task_id_1 /\ r.task_id_2 = task_id_2

NotRelating == <<startup, locking, attaching, levelling, reminding>>

RelInit == AppStarted /\ Quiet

\* create_task_relationship; relationship_type "none" is an absent field
CreateTaskRelationship(task_id_1, task_id_2, input_type) ==
    LET relationship_type == IF input_type = "none" THEN "related" ELSE input_type
        row == [task_id_1 |-> task_id_1, task_id_2 |-> task_id_2,
                relationship_type |-> relationship_type]
        result ==
            IF task_id_1 = task_id_2 THEN "self"
            ELSE IF /\ relationship_type = "blocks"
                    /\ CheckCircularDependency(relationships, task_id_1, task_id_2)
            THEN "circular"
            ELSE IF ~RelUnique(relationships, task_id_1, task_id_2) THEN "exists"
            ELSE "ok"
    IN  /\ rel_last' = [request |-> <<task_id_1, task_id_2, relationship_type>>,
                        result |-> result]
        /\ relationships' = IF result = "ok" THEN relationships \cup {row} ELSE relationships
        /\ UNCHANGED NotRelating

\* delete_task_relationship: DELETE .. WHERE id = ?1
DeleteTaskRelationship(row) ==
    /\ row \in relationships
    /\ relationships' = relationships \ {row}
    /\ UNCHANGED <<rel_last, NotRelating>>

RelNext ==
    \/ \E task_id_1, task_id_2 \in Tasks : \E input_type \in {"none", "related", "blocks"} :
            CreateTaskRelationship(task_id_1, task_id_2, input_type)
    \/ \E task_id_1, task_id_2 \in Tasks : \E relationship_type \in {"related", "blocks"} :
            DeleteTaskRelationship([task_id_1 |-> task_id_1, task_id_2 |-> task_id_2,
                                    relationship_type |-> relationship_type])

RelSpec == RelInit /\ [][RelNext]_vars

\* the tasks a task blocks, directly or through other tasks
RECURSIVE BlockedBy(_, _, _)
BlockedBy(rel, level, n) ==
    IF n = 0 \/ level = {} THEN {}
    ELSE LET next == {r.task_id_2 : r \in {x \in rel : x.relationship_type = "blocks"
                                                      /\ x.task_id_1 \in level}}
         IN  next \cup BlockedBy(rel, next, n - 1)

(***************************************************************************)
(* C19.  Blocking relationships stay acyclic: no task blocks itself,       *)
(* directly or through other tasks; a request with task_id_1 = task_id_2   *)
(* and a 'blocks' request from a task to one that already blocks it        *)
(* return an error, and a request that returns an error inserts no row.    *)
(***************************************************************************)
C19_BlocksAcyclic ==
    /\ \A t \in Tasks : t \notin BlockedBy(relationships, {t}, Cardinality(Tasks))
    /\ rel_last.result # "none" =>
            (rel_last.request[1] = rel_last.request[2] => rel_last.result = "self")

(***************************************************************************)
(* Experience points: commands.rs, grant_xp and toggle_complete.  The      *)
(* streak and badge columns that toggle_complete also refreshes never      *)
(* enter total_xp or current_level and are left out.                       *)
(***************************************************************************)

\* grant_xp and a completing toggle_complete run while total_xp stays within
\* MaxTotalXp and xp_history within MaxHistory rows
MaxTotalXp == 450
MaxHistory == 2
\* now(): seconds of the wall clock
MaxClock == 2

\* the largest k with 100 * k * k <= total_xp: (total_xp as f64 / 100.0).sqrt().floor(),
\* which f64 computes exactly for the totals reached here
RECURSIVE FloorSqrtOfHundredth(_, _)
FloorSqrtOfHundredth(total, k) ==
    IF 100 * (k + 1) * (k + 1) > total THEN k ELSE FloorSqrtOfHundredth(total, k + 1)

CalculateLevel(total) ==
    IF total <= 0 THEN 1 ELSE FloorSqrtOfHundredth(total, 0) + 1

CalculateXpToNextLevel(level) == (level * 100) * level

\* for i in 1..level { xp_for_current_level += CalculateXpToNextLevel(i) }
RECURSIVE XpForCurrentLevel(_)
XpForCurrentLevel(level) ==
    IF level <= 1 THEN 0
    ELSE XpForCurrentLevel(level - 1) + CalculateXpToNextLevel(level - 1)

CalculateCurrentXp(total, level) ==
    IF level = 1 THEN total ELSE total - XpForCurrentLevel(level)

Max0(n) == IF n < 0 THEN 0 ELSE n

\* the GrantXpResult both internal functions build from the new total
GrantXpResult(new_total_xp, leveled_up) ==
    LET new_level == CalculateLevel(new_total_xp)
    IN  [status |-> "ok",
         level_up |-> leveled_up,
         new_level |-> new_level,
         total_xp |-> new_total_xp,
         current_xp |-> CalculateCurrentXp(new_total_xp, new_level),
         xp_to_next_level |-> CalculateXpToNextLevel(new_level)]

\* uuid::Uuid::new_v4(): an id no row of xp_history has
NewHistoryId == CHOOSE n \in 1..(MaxHistory + 1) : \A r \in xp_history : r.id # n

\* variant: the UPDATE leaves current_level as it was
GrantXpInternal_KeepLevel(xp, source, task_id, now) ==
    LET new_total_xp == Max0(total_xp + xp)
    IN  /\ total_xp' = new_total_xp
        /\ current_level' = current_level
        /\ xp_history' = xp_history \cup
                {[id |-> NewHistoryId, xp_amount |-> xp, source |-> source,
                  task_id |-> task_id, created_at |-> now]}
        /\ xp_result' = GrantXpResult(new_total_xp, FALSE)

\* UPDATE user_progress, INSERT INTO xp_history, Ok(GrantXpResult)
GrantXpInternal(xp, source, task_id, now) ==
    LET new_total_xp == Max0(total_xp + xp)
        new_level == CalculateLevel(new_total_xp)
    IN  /\ total_xp' = new_total_xp
        /\ current_level' = new_level
        /\ xp_history' = xp_history \cup
                {[id |-> NewHistoryId, xp_amount |-> xp, source |-> source,
                  task_id |-> task_id, created_at |-> now]}
        /\ xp_result' = GrantXpResult(new_total_xp, new_level > current_level)

\* UPDATE user_progress, DELETE FROM xp_history WHERE id = history_id
RevokeXpInternal(xp, history_id) ==
    LET new_total_xp == Max0(total_xp - xp)
    IN  /\ total_xp' = new_total_xp
        /\ current_level' = CalculateLevel(new_total_xp)
        /\ xp_history' = {r \in xp_history : r.id # history_id}
        /\ xp_result' = GrantXpResult(new_total_xp, FALSE)

XpAmount(priority) ==
    CASE priority = "low" -> 10
      [] priority = "medium" -> 25
      [] priority = "high" -> 50
      [] OTHER -> 25

\* the amounts, sources and task ids the front end passes to grant_xp
GrantAmounts == {-50, 100, 200}
GrantTargets == {<<"manual", "none">>, <<"task_completion", "high">>}

Clock == 1..MaxClock

\* the wall clock is not behind the rows already written
Later(now) == \A r \in xp_history : r.created_at <= now

\* SELECT xp_amount, id FROM xp_history WHERE task_id = ?1 AND source =
\* 'task_completion' ORDER BY created_at DESC LIMIT 1: a row of the latest
\* second, any of them when several share it
XpEntries(id) ==
    LET mine == {r \in xp_history : r.task_id = id /\ r.source = "task_completion"}
    IN  {r \in mine : \A o \in mine : o.created_at <= r.created_at}

NotLevelling == <<startup, locking, attaching, relating, reminding>>

XpInit == AppStarted /\ Quiet

GrantXp(xp, source, task_id) ==
    /\ total_xp + xp <= MaxTotalXp
    /\ Cardinality(xp_history) < MaxHistory
    /\ \E now \in Clock : Later(now) /\ GrantXpInternal(xp, source, task_id, now)
    /\ toggled' = NoToggle
    /\ UNCHANGED <<completed, task_table>>
    /\ UNCHANGED NotLevelling

\* recurring instances are created while the table holds at most MaxInstances of them
MaxInstances == 2

\* and while their due dates stay within MaxDays days of the epoch
MaxDays == 2000000000

\* uuid::Uuid::new_v4() for a task: an id no row of tasks has
InstanceId(n) == "instance" \o ToString(n)

TaskIds == Priorities \cup {InstanceId(n) : n \in 1..MaxInstances}

NewTaskId ==
    InstanceId(CHOOSE n \in 1..(MaxInstances + 1) : InstanceId(n) \notin DOMAIN task_table)

\* i32 arithmetic, on 16-bit halves so that no intermediate value leaves 32 bits:
\* the product interval * k of a non-negative interval, as the i32 the release
\* build computes (two's complement wrap)
Half == 65536

Mul32(interval, k) ==
    LET lo == (interval % Half) * k
        hi == ((interval \div Half) * k + (lo \div Half)) % Half
    IN  (IF hi >= Half \div 2 THEN hi - Half ELSE hi) * Half + (lo % Half)

\* the product fits i32: the debug build panics when it does not
Fits32(interval, k) == interval <= 2147483647 \div k

Factor(recurrence_type) ==
    CASE recurrence_type = "weekly" -> 7
      [] recurrence_type = "monthly" -> 30
      [] OTHER -> 1

\* match recurrence_type { "daily" => interval, "weekly" => interval * 7,
\*                         "monthly" => interval * 30, _ => 0 }
DaysToAdd(recurrence_type, interval) ==
    CASE recurrence_type = "daily" -> interval
      [] recurrence_type \in {"weekly", "monthly"} -> Mul32(interval, Factor(recurrence_type))
      [] OTHER -> 0

\* the due date of the instance is a day the model can write down
WithinMaxDays(parent) ==
    parent.due_at # None =>
        LET days == parent.due_at[1].days
            days_to_add == DaysToAdd(parent.recurrence_type, parent.recurrence_interval)
        IN  IF days_to_add >= 0 THEN days <= MaxDays - days_to_add
            ELSE days >= (-MaxDays) - days_to_add

\* overflow checks on: the multiplication panics instead of wrapping
Panics(parent, build) ==
    /\ build = "debug"
    /\ parent.due_at # None
    /\ parent.recurrence_type \in {"weekly", "monthly"}
    /\ ~Fits32(parent.recurrence_interval, Factor(parent.recurrence_type))

\* the row create_recurring_instance inserts for the task it is given
CreateRecurringInstance(parent_id, recurrence_type, interval) ==
    LET original == task_table[parent_id]
        new_due_date ==
            IF original.due_at # None
            THEN Some(Due(original.due_at[1].days + DaysToAdd(recurrence_type, interval),
                          original.due_at[1].secs))
            ELSE None
    IN  [title |-> original.title,
         description |-> original.description,
         project_id |-> original.project_id,
         order_index |-> original.order_index,
         priority |-> original.priority,
         due_at |-> new_due_date,
         recurrence_type |-> recurrence_type,
         recurrence_interval |-> interval,
         recurrence_parent_id |-> Some(parent_id),
         reminder_minutes_before |-> None,
         notification_repeat |-> 0]

Builds == {"release", "debug"}

ToggleComplete(id) ==
    /\ id \in DOMAIN task_table
    /\ IF id \notin completed
       THEN LET task == task_table[id]
                recurring == task.recurrence_type # "none"
            IN  /\ total_xp + XpAmount(task.priority) <= MaxTotalXp
                /\ Cardinality(xp_history) < MaxHistory
                /\ recurring =>
                        Cardinality(DOMAIN task_table \ Priorities) < MaxInstances
                /\ recurring => WithinMaxDays(task)
                /\ completed' = completed \cup {id}
                /\ \E build \in Builds :
                    IF recurring /\ Panics(task, build)
                    THEN /\ toggled' = NoToggle
                         /\ UNCHANGED <<task_table, total_xp, current_level, xp_history,
                                        xp_result>>
                    ELSE /\ task_table' =
                                IF recurring
                                THEN task_table @@
                                     (NewTaskId :> CreateRecurringInstance(id,
                                            task.recurrence_type, task.recurrence_interval))
                                ELSE task_table
                         /\ toggled' = [id |-> id, total_xp |-> total_xp,
                                        current_level |-> current_level,
                                        xp_history |-> xp_history]
                         /\ \E now \in Clock :
                                /\ Later(now)
                                /\ GrantXpInternal(XpAmount(task.priority),
                                                   "task_completion", id, now)
       ELSE /\ completed' = completed \ {id}
            /\ toggled' = NoToggle
            /\ UNCHANGED task_table
            /\ IF XpEntries(id) = {}
               THEN UNCHANGED <<total_xp, current_level, xp_history, xp_result>>
               ELSE \E xp_entry \in XpEntries(id) :
                        RevokeXpInternal(xp_entry.xp_amount, xp_entry.id)
    /\ UNCHANGED NotLevelling

XpNext ==
    \/ \E xp \in GrantAmounts : \E target \in GrantTargets : GrantXp(xp, target[1], target[2])
    \/ \E id \in Priorities : ToggleComplete(id)

XpSpec == XpInit /\ [][XpNext]_vars

(***************************************************************************)
(* Reminders: notifications.rs, with update_task and snooze_notification   *)
(* of commands.rs and the checker thread of main.rs.  Table                *)
(* notification_schedule is created by unit 0006 only, so the application  *)
(* is taken after a start-up that applied it to the file of an earlier     *)
(* version.  A statement whose error the code discards (let _ =) may fail; *)
(* one whose error it returns is taken to succeed.                         *)
(***************************************************************************)

LegacyFile == LegacySchema({}, {})

UpgradedSchema == Reconciler(Unit0006(LegacyFile).s, {}).s

\* the first start-up on the file of an earlier version whose ledger has
\* 0001_init.sql, with 0001_init.sql and 0006 in the migration directory
AppUpgraded ==
    /\ schema = UpgradedSchema
    /\ ledger = LedgerOf({M0001}) \o <<[name |-> M0006, applied_at |-> 1]>>
    /\ task_rows = SeedRows
    /\ user_progress = {"default"}
    /\ directory = {M0001, M0006}
    /\ pc = "Ready"
    /\ applied = {M0001}
    /\ migration_files = <<M0001, M0006>>
    /\ idx = 3
    /\ tables_exist = TRUE
    /\ run = 1
    /\ steps = StepOrder
    /\ executed = <<M0006>>
    /\ not_applied = {}
    /\ env_fault = FALSE
    /\ last_err = "none"
    /\ bootstrap_ran = FALSE
    /\ boot_live = NoBoot
    /\ start = [schema |-> LegacyFile, ledger |-> LedgerOf({M0001})]
    /\ prev = NoPrev

\* schedule_notification is called while fewer than MaxCalls calls were made
MaxCalls == 2

DefaultReminder == 15

Day == 24 * 60 * 60

\* variant: 31 days ahead
Window_Longer == 31 * Day

\* Max 30 days ahead
Window == 30 * Day

\* the readings of the wall clock, in seconds
Times == {0, 900, Day}

Seconds(due) == due.days * Day + due.secs

\* while next_scheduled <= max_future { INSERT ..; next_scheduled += 24 * 60 * 60 }
RECURSIVE Repeats(_, _)
Repeats(next_scheduled, max_future) ==
    IF next_scheduled <= max_future
    THEN {next_scheduled} \cup Repeats(next_scheduled + Day, max_future)
    ELSE {}

Row(call, task_id, scheduled_at) ==
    [id |-> <<call, scheduled_at>>, task_id |-> task_id, scheduled_at |-> scheduled_at,
     snooze_until |-> None]

\* what goes wrong in one update_task call, all of it ignored by the code: nothing,
\* the DELETE of the old rows, the first INSERT (schedule_notification returns
\* its error, update_task drops it), or the INSERTs of the loop
Faults == {"none", "delete failed", "first failed", "repeats failed"}

\* the rows schedule_notification inserts for a task of table tasks t, as call
\* number call
ScheduleNotification(t, done, call, task_id, reminder_minutes_before, now, fault) ==
    IF task_id \notin DOMAIN t \/ task_id \in done THEN {}
    ELSE IF t[task_id].due_at = None THEN {}
    ELSE LET reminder_minutes == IF reminder_minutes_before = None THEN DefaultReminder
                                 ELSE reminder_minutes_before[1]
             scheduled_at == Seconds(t[task_id].due_at[1]) - reminder_minutes * 60
         IN  IF scheduled_at > now /\ fault # "first failed"
             THEN {Row(call, task_id, scheduled_at)} \cup
                  (IF t[task_id].notification_repeat = 1 /\ fault # "repeats failed"
                   THEN {Row(call, task_id, at) : at \in Repeats(scheduled_at + Day, now + Window)}
                   ELSE {})
             ELSE {}

\* UPDATE tasks SET <the fields supplied>
Updated(task, input) ==
    [task EXCEPT
        !.due_at = IF input.due_date # None THEN input.due_date ELSE @,
        !.recurrence_type = IF input.recurrence_type # None THEN input.recurrence_type[1] ELSE @,
        !.recurrence_interval =
            IF input.recurrence_interval # None THEN input.recurrence_interval[1] ELSE @,
        !.reminder_minutes_before =
            IF input.reminder_minutes_before # None THEN input.reminder_minutes_before ELSE @,
        !.notification_repeat =
            IF input.notification_repeat # None
            THEN (IF input.notification_repeat[1] THEN 1 ELSE 0) ELSE @]

NoInput ==
    [due_date |-> None, recurrence_type |-> None, recurrence_interval |-> None,
     reminder_minutes_before |-> None, notification_repeat |-> None]

\* the requests that change the reminder of a task
ReminderInputs ==
    {[NoInput EXCEPT !.due_date = d, !.reminder_minutes_before = r, !.notification_repeat = n] :
        d \in {None, Some(Due(0, 1800)), Some(Due(1, 900))},
        r \in {None, Some(15)},
        n \in {None, Some(TRUE)}}

\* three of them: a due date with a reminder, a later due date with daily
\* repetition, a due date alone
CycleInputs ==
    {[NoInput EXCEPT !.due_date = Some(Due(0, 1800)), !.reminder_minutes_before = Some(15)],
     [NoInput EXCEPT !.due_date = Some(Due(29, 900)), !.notification_repeat = Some(TRUE)],
     [NoInput EXCEPT !.due_date = Some(Due(1, 900))]}

Reschedules(input) ==
    \/ input.reminder_minutes_before # None
    \/ input.notification_repeat # None
    \/ input.due_date # None

UpdateTask(id, input, now, fault) ==
    /\ id \in DOMAIN task_table
    /\ input # NoInput
    /\ now >= clock
    /\ clock' = now
    /\ task_table' = [task_table EXCEPT ![id] = Updated(@, input)]
    /\ LET reminder_minutes == task_table'[id].reminder_minutes_before
           old == {r \in schedule : r.task_id = id}
           kept == IF fault = "delete failed" THEN schedule ELSE schedule \ old
       IN  /\ fault = "delete failed" => Reschedules(input) /\ old # {}
           /\ IF Reschedules(input) /\ reminder_minutes # None
              THEN /\ calls < MaxCalls
                   /\ calls' = calls + 1
                   /\ LET rows == ScheduleNotification(task_table', completed, calls + 1, id,
                                                       reminder_minutes, now, fault)
                          all == ScheduleNotification(task_table', completed, calls + 1, id,
                                                      reminder_minutes, now, "none")
                      IN  /\ fault \in {"first failed", "repeats failed"} => rows # all
                          /\ schedule' = kept \cup rows
                          /\ schedule_last' =
                                [call |-> calls + 1, task_id |-> id,
                                 reminder_minutes_before |-> reminder_minutes,
                                 now |-> now, fault |-> fault, rows |-> rows]
              ELSE /\ fault \in {"none", "delete failed"}
                   /\ schedule' = IF Reschedules(input) THEN kept ELSE schedule
                   /\ UNCHANGED <<calls, schedule_last>>
    /\ UNCHANGED <<sent, cycle_last>>
    /\ UNCHANGED <<total_xp, current_level, xp_result, xp_history, completed, toggled>>
    /\ UNCHANGED <<startup, locking, attaching, relating>>

\* UPDATE notification_schedule SET snooze_until = now + minutes * 60 WHERE id =
\* the earliest row of the task
Earliest(task_id) ==
    {r \in schedule : /\ r.task_id = task_id
                      /\ \A o \in schedule : o.task_id = task_id => r.scheduled_at <= o.scheduled_at}

SnoozeNotification(task_id, snooze_duration_minutes, now) ==
    /\ now >= clock
    /\ clock' = now
    /\ \E target \in Earliest(task_id) :
            schedule' = (schedule \ {target}) \cup
                {[target EXCEPT !.snooze_until = Some(now + snooze_duration_minutes * 60)]}
    /\ UNCHANGED <<calls, schedule_last, sent, cycle_last>>
    /\ UNCHANGED <<startup, locking, attaching, relating, levelling>>

\* the rows the SELECT of check_due_notifications returns
DueRows(now) ==
    {ns \in schedule : /\ ns.scheduled_at <= now
                       /\ (ns.snooze_until = None \/ ns.snooze_until[1] <= now)
                       /\ ns.task_id \in DOMAIN task_table
                       /\ ns.task_id \notin completed}

\* one cycle of the checker thread, a minute or more after the latest reading
\* of the clock: every row selected is sent; at most one of the DELETEs fails
CheckDueNotifications(now) ==
    /\ now > clock
    /\ clock' = now
    /\ LET rows == DueRows(now)
       IN  /\ cycle_last' = [at |-> now, rows |-> rows]
           /\ sent' = sent \cup {r.id : r \in rows}
           /\ \E failed \in {{}} \cup {{r} : r \in rows} :
                    schedule' = (schedule \ rows) \cup failed
    /\ UNCHANGED <<calls, schedule_last>>
    /\ UNCHANGED <<startup, locking, attaching, relating, levelling>>

Reminded == {"high", "low"}

NotifyInit == AppUpgraded /\ Quiet

NotifyNext ==
    \/ \E id \in Reminded : \E input \in CycleInputs : \E now \in Times :
       \E fault \in Faults :
            UpdateTask(id, input, now, fault)
    \/ \E minutes \in {20} : \E now \in Times : SnoozeNotification("high", minutes, now)
    \/ \E now \in Times : CheckDueNotifications(now)
    \/ ToggleComplete("high")

NotifySpec == NotifyInit /\ [][NotifyNext]_vars

\* update_task with every combination of the three reminder fields, and
\* toggle_complete
ScheduleNext ==
    \/ \E id \in {"high"} : \E input \in ReminderInputs : \E now \in Times :
       \E fault \in Faults :
            UpdateTask(id, input, now, fault)
    \/ ToggleComplete("high")

ScheduleSpec == NotifyInit /\ [][ScheduleNext]_vars

\* the requests that change the recurrence of a task; the interval is any i32
RecurrenceInputs ==
    {[NoInput EXCEPT !.due_date = d, !.recurrence_type = t, !.recurrence_interval = i] :
        d \in {None, Some(Due(1, 900))},
        t \in {None, Some("daily"), Some("weekly"), Some("monthly"), Some("yearly"),
               Some("none")},
        i \in {None, Some(2), Some(100000000)}}

\* update_task on one task, toggle_complete on it and on its instances
TaskNext ==
    \/ \E input \in RecurrenceInputs : UpdateTask("high", input, 0, "none")
    \/ \E id \in TaskIds \ {"low", "medium", "urgent"} : ToggleComplete(id)

TaskSpec == NotifyInit /\ [][TaskNext]_vars

(***************************************************************************)
(* C23.  Reminder delivery safety: check_due_notifications sends a         *)
(* reminder only for a row with scheduled_at <= now, snooze_until null or  *)
(* <= now, and whose task is not completed; every row it sends is deleted  *)
(* in the same call, and no row is sent more than once.                    *)
(***************************************************************************)
C23_Cycle ==
    cycle_last'.at # cycle_last.at =>
        /\ \A r \in cycle_last'.rows :
            /\ r.scheduled_at <= cycle_last'.at
            /\ r.snooze_until = None \/ r.snooze_until[1] <= cycle_last'.at
            /\ r.task_id \notin completed
            /\ r.id \notin sent
        /\ cycle_last'.rows \cap schedule' = {}

C23_DeliveredOnce == [][C23_Cycle]_vars

(***************************************************************************)
(* C24.  Rescheduling leaves no stale reminders: after update_task is      *)
(* called with any of due_date, reminder_minutes_before or                 *)
(* notification_repeat supplied, the notification_schedule rows of that    *)
(* task are exactly the rows schedule_notification computes from the new   *)
(* values of the task (none if it is completed, has no due date or no      *)
(* reminder, or the reminder time is not in the future); no row computed   *)
(* from the old values remains.                                            *)
(***************************************************************************)
C24_Update(id, input, now, fault) ==
    (UpdateTask(id, input, now, fault) /\ Reschedules(input)) =>
        LET mine == {r \in schedule' : r.task_id = id}
            task == task_table'[id]
        IN  /\ mine = IF task.reminder_minutes_before = None THEN {}
                      ELSE ScheduleNotification(task_table', completed, calls', id,
                                                task.reminder_minutes_before, now, "none")
            /\ \A r \in mine : r \notin schedule
            /\ (\/ id \in completed
                \/ task.due_at = None
                \/ task.reminder_minutes_before = None
                \/ Seconds(task.due_at[1]) - task.reminder_minutes_before[1] * 60 <= now)
               => mine = {}

C24_Step ==
    \A id \in Reminded : \A input \in CycleInputs : \A now \in Times : \A fault \in Faults :
        C24_Update(id, input, now, fault)

C24_NoStaleReminders == [][C24_Step]_vars

(***************************************************************************)
(* C25.  Scheduling window: schedule_notification inserts nothing when the *)
(* task is completed, has no due date, or due_at - reminder_minutes * 60   *)
(* (reminder defaulting to 15) is not strictly later than now; otherwise   *)
(* it inserts one row at that time and, only when notification_repeat = 1, *)
(* additional rows at successive 24-hour steps, every one of which has     *)
(* scheduled_at <= now + 30 days.  A call that returns the error of its    *)
(* first INSERT has inserted nothing; the steps are all there unless an    *)
(* INSERT of the loop failed.                                              *)
(***************************************************************************)
C25_Call ==
    schedule_last'.call # schedule_last.call =>
        LET c == schedule_last'
            task == task_table'[c.task_id]
            at == {r.scheduled_at : r \in c.rows}
            reminder == IF c.reminder_minutes_before = None THEN 15
                        ELSE c.reminder_minutes_before[1]
        IN  /\ c.rows \subseteq schedule'
            /\ \A r \in c.rows : r.task_id = c.task_id /\ r.snooze_until = None
            /\ IF c.task_id \in completed \/ task.due_at = None THEN c.rows = {}
               ELSE LET first == (task.due_at[1].days * 86400 + task.due_at[1].secs)
                                    - reminder * 60
                    IN  IF first <= c.now \/ c.fault = "first failed" THEN c.rows = {}
                        ELSE /\ first \in at
                             /\ \A t \in at \ {first} :
                                    /\ task.notification_repeat = 1
                                    /\ t > first
                                    /\ (t - first) % 86400 = 0
                                    /\ t <= c.now + 30 * 86400
                             /\ (task.notification_repeat = 1 /\ c.fault # "repeats failed") =>
                                    \A k \in 1..30 :
                                        first + k * 86400 <= c.now + 30 * 86400
                                            => first + k * 86400 \in at

C20_CurrentXpInRange ==
    xp_result.status = "ok" =>
        /\ 0 <= xp_result.current_xp
        /\ xp_result.current_xp <= xp_result.xp_to_next_level

(***************************************************************************)
(* C21.  Stored progress is consistent: after any sequence of grant_xp     *)
(* (with positive or negative amounts) and toggle_complete calls, the      *)
(* user_progress row has total_xp >= 0 and                                 *)
(* current_level = floor(sqrt(total_xp / 100)) + 1, that is,               *)
(* 100 * (current_level - 1)^2 <= total_xp < 100 * current_level^2.        *)
(***************************************************************************)
C21_StoredProgress ==
    /\ total_xp >= 0
    /\ current_level >= 1
    /\ 100 * (current_level - 1) * (current_level - 1) <= total_xp
    /\ total_xp < 100 * current_level * current_level

\* a negative grant has been recorded and the row is above level 1
C21_Witness ==
    /\ \E r \in xp_history : r.xp_amount < 0
    /\ current_level >= 2
    /\ xp_result.status = "ok"

(***************************************************************************)
(* C22.  Complete/undo round trip on XP: the toggle_complete call that     *)
(* completes a task grants 10 (low), 25 (medium), 50 (high) or 25 (any     *)
(* other priority) points, and the toggle_complete call that follows it    *)
(* at once on the same task leaves total_xp, current_level and the rows    *)
(* of xp_history as they were before the first call.                       *)
(***************************************************************************)
C22_Step ==
    \A id \in Priorities :
        /\ (id \notin completed /\ id \in completed') =>
                total_xp' = total_xp + (CASE id = "low" -> 10 [] id = "medium" -> 25
                                          [] id = "high" -> 50 [] OTHER -> 25)
        /\ (id \in completed /\ id \notin completed' /\ toggled.id = id) =>
                /\ total_xp' = toggled.total_xp
                /\ current_level' = toggled.current_level
                /\ xp_history' = toggled.xp_history

C22_RoundTrip == [][C22_Step]_vars

(***************************************************************************)
(* C26.  Recurrence on completion: each toggle_complete call that turns a  *)
(* task with recurrence_type other than 'none' from incomplete to complete *)
(* inserts exactly one new incomplete task with the same title,            *)
(* description, priority, project, order_index, recurrence_type and        *)
(* recurrence_interval, with recurrence_parent_id equal to the completed   *)
(* task's id and due_at shifted by interval x 1, 7 or 30 days for daily,   *)
(* weekly or monthly (unchanged for other types, absent if the original    *)
(* had none); a call that un-completes a task, or completes a task with    *)
(* recurrence_type 'none', inserts no task.                                *)
(***************************************************************************)
C26_Shifted(original, instance) ==
    IF original.due_at = None THEN instance.due_at = None
    ELSE /\ instance.due_at # None
         /\ instance.due_at[1].secs = original.due_at[1].secs
         /\ LET shift == instance.due_at[1].days - original.due_at[1].days
                factor == CASE original.recurrence_type = "daily" -> 1
                            [] original.recurrence_type = "weekly" -> 7
                            [] original.recurrence_type = "monthly" -> 30
                            [] OTHER -> 0
            IN  IF factor = 0 THEN shift = 0
                ELSE shift % factor = 0 /\ shift \div factor = original.recurrence_interval

C26_Step ==
    \A id \in DOMAIN task_table :
        LET original == task_table[id]
            inserted == DOMAIN task_table' \ DOMAIN task_table
        IN  /\ (id \notin completed /\ id \in completed') =>
                IF original.recurrence_type # "none"
                THEN /\ Cardinality(inserted) = 1
                     /\ \A new_id \in inserted :
                            LET instance == task_table'[new_id]
                            IN  /\ new_id \notin completed'
                                /\ instance.title = original.title
                                /\ instance.description = original.description
                                /\ instance.priority = original.priority
                                /\ instance.project_id = original.project_id
                                /\ instance.order_index = original.order_index
                                /\ instance.recurrence_type = original.recurrence_type
                                /\ instance.recurrence_interval = original.recurrence_interval
                                /\ instance.recurrence_parent_id = Some(id)
                                /\ C26_Shifted(original, instance)
                ELSE inserted = {}
            /\ (id \in completed /\ id \notin completed') => inserted = {}

C26_RecurrenceOnCompletion == [][C26_Step]_vars

=============================================================================
